---------------------------- MODULE Spec2Model ----------------------------
(***************************************************************************)
(* The SGR attribute matrix printer of icy_engine/term/a.c.                *)
(*                                                                         *)
(* main() is nine textually separate copies of one loop nest, each         *)
(* preceded by a printf of the group's label.  The model keeps the nine    *)
(* copies apart by the group index grp (the part of the program counter    *)
(* that says which copy is executing) and reads every copy's own label,    *)
(* format string and loop limits from tables indexed by grp.               *)
(*                                                                         *)
(* Standard output is the sequence of the printf calls' results, each a    *)
(* string.  printf is modelled by what it does: it walks the format string *)
(* character by character and renders %d and %<width>d.                    *)
(*                                                                         *)
(* Every variable is a function of the run, an execution of the program.   *)
(* Spec is one run alone.  PairSpec is two runs stepped side by side, one   *)
(* statement each in turn.  The locals i, j and n are declared without an  *)
(* initialiser, so every run starts with indeterminate values in them.     *)
(***************************************************************************)
EXTENDS Integers, Sequences, FiniteSets

VARIABLES grp, pc, i, j, n, out, ret, turn

vars == <<grp, pc, i, j, n, out, ret, turn>>

(***************************************************************************)
(* Bounds of the model.                                                    *)
(***************************************************************************)
\* The indeterminate start values of i, j and n are 100 * k, k \in -1..MaxIndet.
MaxIndet == 1

\* The runs there are.
Runs == DOMAIN pc

Indeterminate == {100 * k : k \in (-1)..MaxIndet}

(***************************************************************************)
(* Characters.  ESC is the one-character string holding the byte 0x1B,     *)
(* written '\033' in the C source.                                         *)
(***************************************************************************)
ESC == ""

Digit == <<"0", "1", "2", "3", "4", "5", "6", "7", "8", "9">>

IsDigit(c) == \E d \in 1..10 : Digit[d] = c

DigitVal(c) == (CHOOSE d \in 1..10 : Digit[d] = c) - 1

(***************************************************************************)
(* The program text: per group, the label, the cell format and the limits  *)
(* of its loop nest.                                                       *)
(***************************************************************************)
NumGroups == 9

Label ==
  << "Plain:\n",
     "Bold:\n",
     "Bold:\n",
     "Italic:\n",
     "Blink:\n",
     "Underline:\n",
     "Crossed out :\n",
     "Double underlined :\n",
     "Conceal/hide :\n" >>

Format ==
  << ESC \o "[%dm %3d" \o ESC \o "[m",
     ESC \o "[1;%dm %3d" \o ESC \o "[m",
     ESC \o "[2;%dm %3d" \o ESC \o "[m",
     ESC \o "[3;%dm %3d" \o ESC \o "[m",
     ESC \o "[5;%dm %3d" \o ESC \o "[m",
     ESC \o "[4;%dm %3d" \o ESC \o "[m",
     ESC \o "[9;%dm %3d" \o ESC \o "[m",
     ESC \o "[21;%dm %3d" \o ESC \o "[m",
     ESC \o "[8;%dm %3d" \o ESC \o "[m" >>

NewlineFormat == "\n"

\* for (i = 0; i < 11; i++), once per group
RowLimit == <<11, 11, 11, 11, 11, 11, 11, 11, 11>>

\* for (j = 0; j < 10; j++), once per group
ColLimit == <<10, 10, 10, 10, 10, 10, 10, 10, 10>>

\* n = 10 * i + j, once per group
RowStride == <<10, 10, 10, 10, 10, 10, 10, 10, 10>>

\* if (n > 108) break, once per group
MaxN == <<108, 108, 108, 108, 108, 108, 108, 108, 108>>

ExitStatus == 0

(***************************************************************************)
(* printf.  Strings are taken apart with Head, Tail and SubSeq and put     *)
(* together with \o.                                                       *)
(***************************************************************************)
\* The decimal digits of v, most significant first (the %d conversion).
RECURSIVE ToDecimal(_)
ToDecimal(v) ==
  IF v < 0 THEN "-" \o ToDecimal(0 - v)
  ELSE IF v < 10 THEN Digit[v + 1]
  ELSE ToDecimal(v \div 10) \o Digit[(v % 10) + 1]

\* Variant: the field padded on the right (left-justified, as by %-3d).
RECURSIVE PadRight(_, _)
PadRight(s, w) == IF Len(s) >= w THEN s ELSE PadRight(s \o " ", w)

\* A converted field of fewer than w characters is padded with spaces on
\* the left (right-justified); a longer one is never cut.
RECURSIVE PadLeft(_, _)
PadLeft(s, w) == IF Len(s) >= w THEN s ELSE PadLeft(" " \o s, w)

\* The number of leading digit characters of fmt (the field width's text).
RECURSIVE WidthLen(_)
WidthLen(fmt) ==
  IF fmt # "" /\ IsDigit(Head(fmt)) THEN 1 + WidthLen(Tail(fmt)) ELSE 0

\* The number a string of digit characters denotes; the empty one, 0.
RECURSIVE ToNumber(_)
ToNumber(ds) ==
  IF ds = "" THEN 0
  ELSE 10 * ToNumber(SubSeq(ds, 1, Len(ds) - 1))
         + DigitVal(SubSeq(ds, Len(ds), Len(ds)))

\* printf(fmt, args...): ordinary characters are copied; "%", an optional
\* width and "d" render the next argument.
RECURSIVE Printf(_, _)
Printf(fmt, args) ==
  IF fmt = "" THEN ""
  ELSE IF Head(fmt) # "%" THEN Head(fmt) \o Printf(Tail(fmt), args)
  ELSE LET spec == Tail(fmt)
           wl   == WidthLen(spec)
           w    == ToNumber(SubSeq(spec, 1, wl))
           rest == SubSeq(spec, wl + 2, Len(spec))
       IN  PadLeft(ToDecimal(Head(args)), w) \o Printf(rest, Tail(args))

(***************************************************************************)
(* The statements of main, for run r.                                      *)
(***************************************************************************)
Other(r) == 3 - r

\* Run r executes one statement and hands the turn to the other run, unless
\* there is none or it has returned already.
Sched(r) ==
  /\ turn = r
  /\ turn' = IF Other(r) \in Runs /\ pc[Other(r)] # "done" THEN Other(r) ELSE r

\* Variant: the row loop written with <= for <.
RowCondInclusive(g, iv) == iv <= RowLimit[g]

RowCond(g, iv) == iv < RowLimit[g]

\* Variant: the column loop written with <= for <.
ColCondInclusive(g, jv) == jv <= ColLimit[g]

ColCond(g, jv) == jv < ColLimit[g]

\* Variant: the cells numbered from 1.
CellNumberFromOne(g, iv, jv) == RowStride[g] * iv + jv + 1

CellNumber(g, iv, jv) == RowStride[g] * iv + jv

\* Variant: the break test written with >= for >.
BreakAtLimit(g, nv) == nv >= MaxN[g]

BreakCond(g, nv) == nv > MaxN[g]

\* Variant: the third group labelled by the attribute its prefix selects.
GroupLabelFaint(g) == IF g = 3 THEN "Faint:\n" ELSE Label[g]

\* The label text the g-th group's first printf is given.
GroupLabel(g) == Label[g]

\* Variant: the Plain group's printf given the Bold group's format string.
CellFormatPlainPrefixed(g) == IF g = 1 THEN Format[2] ELSE Format[g]

\* Variant: the format strings without their closing ESC [ m.
CellFormatNoReset(g) == SubSeq(Format[g], 1, Len(Format[g]) - 3)

\* The format string the printf in the g-th group's inner loop is given.
CellFormat(g) == Format[g]

\* Variant: break replaced by a jump back to the column test, j untouched.
BreakTargetRetest == "j_test"

\* Where break leaves the inner loop to: the statement after it.
BreakTarget == "newline"

\* Entry to main in each run of R: nothing written, the locals indeterminate.
InitRuns(R) ==
  /\ grp = [r \in R |-> 1]
  /\ pc = [r \in R |-> "label"]
  /\ i \in [R -> Indeterminate]
  /\ j \in [R -> Indeterminate]
  /\ n \in [R -> Indeterminate]
  /\ out = [r \in R |-> <<>>]
  /\ ret = [r \in R |-> <<>>]
  /\ turn = 1

Init == InitRuns({1})

PairInit == InitRuns({1, 2})

\* printf("<label>:\n");
PrintLabel(r) ==
  /\ Sched(r)
  /\ pc[r] = "label"
  /\ out' = [out EXCEPT ![r] = Append(@, Printf(GroupLabel(grp[r]), <<>>))]
  /\ pc' = [pc EXCEPT ![r] = "i_init"]
  /\ UNCHANGED <<grp, i, j, n, ret>>

\* for (i = 0; ...
InitI(r) ==
  /\ Sched(r)
  /\ pc[r] = "i_init"
  /\ i' = [i EXCEPT ![r] = 0]
  /\ pc' = [pc EXCEPT ![r] = "i_test"]
  /\ UNCHANGED <<grp, j, n, out, ret>>

\* ... i < 11 ... holds: enter the row
RowEnter(r) ==
  /\ Sched(r)
  /\ pc[r] = "i_test"
  /\ RowCond(grp[r], i[r])
  /\ pc' = [pc EXCEPT ![r] = "j_init"]
  /\ UNCHANGED <<grp, i, j, n, out, ret>>

\* ... i < 11 ... fails: fall through to the next group's label
NextGroup(r) ==
  /\ Sched(r)
  /\ pc[r] = "i_test"
  /\ ~RowCond(grp[r], i[r])
  /\ grp[r] < NumGroups
  /\ grp' = [grp EXCEPT ![r] = @ + 1]
  /\ pc' = [pc EXCEPT ![r] = "label"]
  /\ UNCHANGED <<i, j, n, out, ret>>

\* ... i < 11 ... fails in the last group: fall through to return
LastGroupExit(r) ==
  /\ Sched(r)
  /\ pc[r] = "i_test"
  /\ ~RowCond(grp[r], i[r])
  /\ grp[r] = NumGroups
  /\ pc' = [pc EXCEPT ![r] = "return"]
  /\ UNCHANGED <<grp, i, j, n, out, ret>>

\* for (j = 0; ...
InitJ(r) ==
  /\ Sched(r)
  /\ pc[r] = "j_init"
  /\ j' = [j EXCEPT ![r] = 0]
  /\ pc' = [pc EXCEPT ![r] = "j_test"]
  /\ UNCHANGED <<grp, i, n, out, ret>>

\* ... j < 10 ... holds: enter the cell
ColEnter(r) ==
  /\ Sched(r)
  /\ pc[r] = "j_test"
  /\ ColCond(grp[r], j[r])
  /\ pc' = [pc EXCEPT ![r] = "n_assign"]
  /\ UNCHANGED <<grp, i, j, n, out, ret>>

\* ... j < 10 ... fails: the row is full
ColExit(r) ==
  /\ Sched(r)
  /\ pc[r] = "j_test"
  /\ ~ColCond(grp[r], j[r])
  /\ pc' = [pc EXCEPT ![r] = "newline"]
  /\ UNCHANGED <<grp, i, j, n, out, ret>>

\* Variant: the assignment to n left out, n keeps what it held.
ComputeNSkipped(r) ==
  /\ Sched(r)
  /\ pc[r] = "n_assign"
  /\ pc' = [pc EXCEPT ![r] = "n_test"]
  /\ UNCHANGED <<grp, i, j, n, out, ret>>

\* n = 10 * i + j;
ComputeN(r) ==
  /\ Sched(r)
  /\ pc[r] = "n_assign"
  /\ n' = [n EXCEPT ![r] = CellNumber(grp[r], i[r], j[r])]
  /\ pc' = [pc EXCEPT ![r] = "n_test"]
  /\ UNCHANGED <<grp, i, j, out, ret>>

\* if (n > 108) break;
Break(r) ==
  /\ Sched(r)
  /\ pc[r] = "n_test"
  /\ BreakCond(grp[r], n[r])
  /\ pc' = [pc EXCEPT ![r] = BreakTarget]
  /\ UNCHANGED <<grp, i, j, n, out, ret>>

\* printf("\033[<prefix>;%dm %3d\033[m", n, n);
PrintCell(r) ==
  /\ Sched(r)
  /\ pc[r] = "n_test"
  /\ ~BreakCond(grp[r], n[r])
  /\ out' = [out EXCEPT ![r] = Append(@, Printf(CellFormat(grp[r]), <<n[r], n[r]>>))]
  /\ pc' = [pc EXCEPT ![r] = "j_inc"]
  /\ UNCHANGED <<grp, i, j, n, ret>>

\* ... j++)
IncJ(r) ==
  /\ Sched(r)
  /\ pc[r] = "j_inc"
  /\ j' = [j EXCEPT ![r] = @ + 1]
  /\ pc' = [pc EXCEPT ![r] = "j_test"]
  /\ UNCHANGED <<grp, i, n, out, ret>>

\* printf("\n");
PrintNewline(r) ==
  /\ Sched(r)
  /\ pc[r] = "newline"
  /\ out' = [out EXCEPT ![r] = Append(@, Printf(NewlineFormat, <<>>))]
  /\ pc' = [pc EXCEPT ![r] = "i_inc"]
  /\ UNCHANGED <<grp, i, j, n, ret>>

\* ... i++)
IncI(r) ==
  /\ Sched(r)
  /\ pc[r] = "i_inc"
  /\ i' = [i EXCEPT ![r] = @ + 1]
  /\ pc' = [pc EXCEPT ![r] = "i_test"]
  /\ UNCHANGED <<grp, j, n, out, ret>>

\* return 0;
Return(r) ==
  /\ Sched(r)
  /\ pc[r] = "return"
  /\ ret' = [ret EXCEPT ![r] = <<ExitStatus>>]
  /\ pc' = [pc EXCEPT ![r] = "done"]
  /\ UNCHANGED <<grp, i, j, n, out>>

Next ==
  \E r \in Runs :
    \/ PrintLabel(r)
    \/ InitI(r)
    \/ RowEnter(r)
    \/ NextGroup(r)
    \/ LastGroupExit(r)
    \/ InitJ(r)
    \/ ColEnter(r)
    \/ ColExit(r)
    \/ ComputeN(r)
    \/ Break(r)
    \/ PrintCell(r)
    \/ IncJ(r)
    \/ PrintNewline(r)
    \/ IncI(r)
    \/ Return(r)

Spec == Init /\ [][Next]_vars

\* main is the only thread and nothing can suspend it: a statement that can
\* execute does.
FairSpec == Spec /\ WF_vars(Next)

\* Two runs of the program, stepped side by side.
PairSpec == PairInit /\ [][Next]_vars

Done(r) == pc[r] = "done"

(***************************************************************************)
(* Reading an output back: the writes of a run split into labels, cells    *)
(* and line breaks, the groups and rows they form, and the number a cell   *)
(* carries.                                                                *)
(***************************************************************************)
IsNewline(w) == w = "\n"

IsCell(w) == w # "" /\ Head(w) = ESC

IsLabel(w) == ~IsNewline(w) /\ ~IsCell(w)

\* The places of the label lines in output o.
LabelAt(o) == {k \in 1..Len(o) : IsLabel(o[k])}

NumLabels(o) == Cardinality(LabelAt(o))

\* The members of a finite set of numbers, in increasing order.
Sorted(S) ==
  [g \in 1..Cardinality(S) |-> CHOOSE k \in S : Cardinality({m \in S : m <= k}) = g]

\* Output o cut at its label lines: the g-th element is what o holds after
\* its g-th label line, up to the next label line or the end of o.
Groups(o) ==
  LET P == Sorted(LabelAt(o))
  IN  [g \in 1..Len(P) |->
         SubSeq(o, P[g] + 1, IF g < Len(P) THEN P[g + 1] - 1 ELSE Len(o))]

\* A label line is the last write of run r: the group before it is closed.
JustClosed(r) == out[r] # <<>> /\ IsLabel(out[r][Len(out[r])])

\* The groups of run r that can get no further cell, read when one has just
\* been closed by the next label line and when the run has returned (which
\* closes the last group).
ClosedGroups(r) ==
  IF Done(r) THEN Groups(out[r])
  ELSE IF JustClosed(r)
       THEN SubSeq(Groups(out[r]), 1, NumLabels(out[r]) - 1)
       ELSE <<>>

\* A group body cut at its line breaks: the rows, each without the line
\* break that ends it.
Rows(body) ==
  LET P == Sorted({k \in 1..Len(body) : IsNewline(body[k])})
  IN  [m \in 1..Len(P) |->
         SubSeq(body, IF m = 1 THEN 1 ELSE P[m - 1] + 1, P[m] - 1)]

Cells(body) == SelectSeq(body, IsCell)

\* The k-th character of string s.
Char(s, k) == SubSeq(s, k, k)

\* The first place of character c in s, 0 when s holds none.
FirstIndex(s, c) ==
  LET P == {k \in 1..Len(s) : Char(s, k) = c}
  IN  IF P = {} THEN 0 ELSE CHOOSE k \in P : \A m \in P : k <= m

\* The last place of character c in s, 0 when s holds none.
LastIndex(s, c) ==
  LET P == {k \in 1..Len(s) : Char(s, k) = c}
  IN  IF P = {} THEN 0 ELSE CHOOSE k \in P : \A m \in P : k >= m

AllDigits(s) == s # "" /\ \A k \in 1..Len(s) : IsDigit(Char(s, k))

EndsWith(s, t) == Len(s) >= Len(t) /\ SubSeq(s, Len(s) - Len(t) + 1, Len(s)) = t

\* A cell's first SGR sequence, from its ESC to its first "m".
SgrSequence(w) == SubSeq(w, 1, FirstIndex(w, "m"))

\* The value n a cell selects: the number the last parameter of its first
\* SGR sequence denotes, -1 when that is no number.
CellN(w) ==
  LET ps   == SubSeq(w, 3, FirstIndex(w, "m") - 1)
      last == SubSeq(ps, LastIndex(ps, ";") + 1, Len(ps))
  IN  IF AllDigits(last) THEN ToNumber(last) ELSE -1

\* What a cell shows: the characters after the "m" of its first SGR
\* sequence and the space that follows, up to the three characters that
\* close the cell.
NumberField(w) == SubSeq(w, FirstIndex(w, "m") + 2, Len(w) - 3)

\* The values of a sequence of cells, in order.
Values(cells) == [k \in 1..Len(cells) |-> CellN(cells[k])]

\* The last cell written before place k of o within the same group, as a
\* one-element sequence; empty when a label line comes first.
RECURSIVE CellBefore(_, _)
CellBefore(o, k) ==
  IF k <= 1 \/ IsLabel(o[k - 1]) THEN <<>>
  ELSE IF IsCell(o[k - 1]) THEN <<o[k - 1]>>
  ELSE CellBefore(o, k - 1)

\* The first place at or after k where o holds a cell, 0 when there is none.
RECURSIVE CellFrom(_, _)
CellFrom(o, k) ==
  IF k > Len(o) THEN 0 ELSE IF IsCell(o[k]) THEN k ELSE CellFrom(o, k + 1)

\* How many cells end output o since its last line break or label line.
RECURSIVE TrailingCells(_)
TrailingCells(o) ==
  IF o = <<>> \/ ~IsCell(o[Len(o)]) THEN 0
  ELSE 1 + TrailingCells(SubSeq(o, 1, Len(o) - 1))

\* The places in write w where an SGR sequence ESC [ ... starts, those
\* where the sequence is the reset ESC [ m, and those where it sets
\* something.
SgrAt(w) == {k \in 1..(Len(w) - 1) : SubSeq(w, k, k + 1) = ESC \o "["}

ResetAt(w) == {k \in SgrAt(w) : k + 2 <= Len(w) /\ Char(w, k + 2) = "m"}

SetAt(w) == SgrAt(w) \ ResetAt(w)

\* Over the writes lo..hi of o: how many SGR sequences set something, less
\* how many reset.
RECURSIVE Unclosed(_, _, _)
Unclosed(o, lo, hi) ==
  IF lo > hi THEN 0
  ELSE IF lo = hi THEN Cardinality(SetAt(o[lo])) - Cardinality(ResetAt(o[lo]))
  ELSE LET mid == (lo + hi) \div 2
       IN  Unclosed(o, lo, mid) + Unclosed(o, mid + 1, hi)

(***************************************************************************)
(* The cell texts the specification states, written out independently of   *)
(* printf: the decimal numeral of a value below 1000 by its digit count,   *)
(* and the three-character right-justified field by the spaces it needs.   *)
(***************************************************************************)
Numeral(k) ==
  IF k < 10 THEN Digit[k + 1]
  ELSE IF k < 100 THEN Digit[(k \div 10) + 1] \o Digit[(k % 10) + 1]
  ELSE Digit[(k \div 100) + 1] \o Digit[((k \div 10) % 10) + 1] \o Digit[(k % 10) + 1]

Field3(k) ==
  IF k < 10 THEN "  " \o Numeral(k)
  ELSE IF k < 100 THEN " " \o Numeral(k)
  ELSE Numeral(k)

\* ESC [ <prefix> ; <k> m, space, k in a field of 3, ESC [ m
PrefixedCell(prefix, k) ==
  ESC \o "[" \o prefix \o ";" \o Numeral(k) \o "m " \o Field3(k) \o ESC \o "[m"

\* ESC [ <k> m, space, k in a field of 3, ESC [ m
PlainCell(k) ==
  ESC \o "[" \o Numeral(k) \o "m " \o Field3(k) \o ESC \o "[m"

\* The attribute prefixes of the groups in output order; Plain has none.
StatedPrefix == <<"", "1", "2", "3", "5", "4", "9", "21", "8">>

\* The label lines in output order.
StatedLabels ==
  << "Plain:", "Bold:", "Bold:", "Italic:", "Blink:", "Underline:",
     "Crossed out :", "Double underlined :", "Conceal/hide :" >>

(***************************************************************************)
(* C1.  In every group the cells' values, read in output order across all  *)
(* rows, are exactly 0, 1, 2, ..., 108: whenever a cell is written its     *)
(* value is 0 if it is the first of its group and one more than the cell   *)
(* before it otherwise, and never above 108; the values of every closed    *)
(* group are 0..108; and a run that has returned has written nine groups.  *)
(***************************************************************************)
C1_ValuesZeroTo108 ==
  \A r \in Runs :
    LET o == out[r]
        G == ClosedGroups(r)
    IN  /\ (o # <<>> /\ IsCell(o[Len(o)])) =>
             LET before == CellBefore(o, Len(o))
                 v      == CellN(o[Len(o)])
             IN  /\ v <= 108
                 /\ v = IF before = <<>> THEN 0 ELSE CellN(before[1]) + 1
        /\ \A g \in 1..Len(G) : Values(Cells(G[g])) = [k \in 1..109 |-> k - 1]
        /\ Done(r) => Len(G) = 9

\* The second label line has just been written: the Plain group is closed,
\* its first cell carries 0 and its 109th and last carries 108.
C1_Witness ==
  \E r \in Runs :
    /\ JustClosed(r)
    /\ Len(ClosedGroups(r)) = 1
    /\ LET v == Values(Cells(ClosedGroups(r)[1]))
       IN  Len(v) = 109 /\ v[1] = 0 /\ v[109] = 108

(***************************************************************************)
(* C2.  Every group is laid out in exactly 11 rows: each of the first 10   *)
(* holds exactly 10 cells (row i the values 10*i .. 10*i+9), the last      *)
(* holds exactly 9 (100..108); and at no moment does a row hold more than  *)
(* 10 cells.                                                               *)
(***************************************************************************)
C2_RowLayout ==
  \A r \in Runs :
    LET G == ClosedGroups(r)
    IN  /\ TrailingCells(out[r]) <= 10
        /\ \A g \in 1..Len(G) :
             LET R == Rows(G[g])
             IN  /\ Len(R) = 11
                 /\ \A m \in 1..10 :
                      /\ \A c \in 1..Len(R[m]) : IsCell(R[m][c])
                      /\ Values(R[m]) = [c \in 1..10 |-> 10 * (m - 1) + (c - 1)]
                 /\ \A c \in 1..Len(R[11]) : IsCell(R[11][c])
                 /\ Values(R[11]) = [c \in 1..9 |-> 100 + (c - 1)]

\* The second label line has just been written: the Plain group is closed,
\* its first row holds 10 cells and its eleventh row holds 9.
C2_Witness ==
  \E r \in Runs :
    /\ JustClosed(r)
    /\ Len(ClosedGroups(r)) = 1
    /\ LET R == Rows(ClosedGroups(r)[1])
       IN  Len(R) = 11 /\ Len(R[1]) = 10 /\ Len(R[11]) = 9

(***************************************************************************)
(* C3.  In every group other than Plain, every cell is exactly             *)
(* ESC[<prefix>;<n>m, a space, n right-justified in 3 characters, ESC[m,   *)
(* with the group's one prefix; the eight prefixes are, in output order,   *)
(* 1, 2, 3, 5, 4, 9, 21, 8.  A cell with a semicolon is, as it is written,  *)
(* of this form with one of the eight prefixes; every cell of a closed     *)
(* group other than Plain has this form with the prefix of its group.      *)
(***************************************************************************)
C3_PrefixedCellFormat ==
  \A r \in Runs :
    LET o == out[r]
        G == ClosedGroups(r)
    IN  /\ (o # <<>> /\ IsCell(o[Len(o)]) /\ FirstIndex(o[Len(o)], ";") # 0) =>
             /\ CellN(o[Len(o)]) >= 0
             /\ \E g \in 2..9 :
                  o[Len(o)] = PrefixedCell(StatedPrefix[g], CellN(o[Len(o)]))
        /\ \A g \in 2..Len(G) :
             \A k \in 1..Len(G[g]) :
               IsCell(G[g][k]) =>
                 /\ CellN(G[g][k]) >= 0
                 /\ G[g][k] = PrefixedCell(StatedPrefix[g], CellN(G[g][k]))

\* The third label line has just been written: the first Bold group is
\* closed, and its cells for 7 and 42 are the stated texts.
C3_Witness ==
  \E r \in Runs :
    /\ JustClosed(r)
    /\ Len(ClosedGroups(r)) = 2
    /\ LET B == Cells(ClosedGroups(r)[2])
       IN  /\ B[8] = ESC \o "[1;7m   7" \o ESC \o "[m"
           /\ B[43] = ESC \o "[1;42m  42" \o ESC \o "[m"

(***************************************************************************)
(* C4.  In the Plain group (the first), every cell is exactly ESC[<n>m, a  *)
(* space, n right-justified in 3 characters, ESC[m: no attribute prefix    *)
(* and no semicolon anywhere in the cell.  A cell without a semicolon is,   *)
(* as it is written, of this form; every cell of the closed Plain group    *)
(* is.                                                                     *)
(***************************************************************************)
C4_PlainCellFormat ==
  \A r \in Runs :
    LET o == out[r]
        G == ClosedGroups(r)
    IN  /\ (o # <<>> /\ IsCell(o[Len(o)]) /\ FirstIndex(o[Len(o)], ";") = 0) =>
             /\ CellN(o[Len(o)]) >= 0
             /\ o[Len(o)] = PlainCell(CellN(o[Len(o)]))
        /\ Len(G) >= 1 =>
             \A k \in 1..Len(G[1]) :
               IsCell(G[1][k]) =>
                 /\ CellN(G[1][k]) >= 0
                 /\ G[1][k] = PlainCell(CellN(G[1][k]))
                 /\ FirstIndex(G[1][k], ";") = 0

\* The second label line has just been written: the Plain group is closed,
\* and its cells for 5 and 42 are the stated texts.
C4_Witness ==
  \E r \in Runs :
    /\ JustClosed(r)
    /\ Len(ClosedGroups(r)) = 1
    /\ LET P == Cells(ClosedGroups(r)[1])
       IN  /\ P[6] = ESC \o "[5m   5" \o ESC \o "[m"
           /\ P[43] = ESC \o "[42m  42" \o ESC \o "[m"

(***************************************************************************)
(* C5.  The label lines are written in the fixed order Plain:, Bold:,      *)
(* Bold:, Italic:, Blink:, Underline:, Crossed out :, Double underlined :, *)
(* Conceal/hide :, with exactly these texts: the first write is a label,   *)
(* whenever a label line has just been written the label lines written so  *)
(* far are the first ones of that list, and the complete output holds      *)
(* exactly nine label lines, each directly followed by the first cell of   *)
(* its group's first row.                                                  *)
(***************************************************************************)
C5_LabelLines ==
  \A r \in Runs :
    LET o == out[r]
        L == SelectSeq(o, IsLabel)
    IN  /\ o # <<>> => IsLabel(o[1])
        /\ (JustClosed(r) \/ Done(r)) =>
             /\ Len(L) <= 9
             /\ \A g \in 1..Len(L) : L[g] = StatedLabels[g] \o "\n"
        /\ Done(r) =>
             /\ Len(L) = 9
             /\ \A k \in LabelAt(o) : k < Len(o) /\ IsCell(o[k + 1])

\* The fourth label line, "Italic:", has just been written after the two
\* "Bold:" lines, the second of which is followed by a cell with prefix 2.
C5_Witness ==
  \E r \in Runs :
    /\ JustClosed(r)
    /\ LET o == out[r]
           P == Sorted(LabelAt(o))
       IN  /\ Len(P) = 4
           /\ o[P[2]] = "Bold:\n"
           /\ o[P[3]] = "Bold:\n"
           /\ o[P[3] + 1] = ESC \o "[2;0m   0" \o ESC \o "[m"
           /\ o[P[4]] = "Italic:\n"

(***************************************************************************)
(* C6.  The program always terminates: every execution comes to the end of *)
(* main, with all nine groups written in full (1089 writes: 9 labels, 981  *)
(* cells, 99 line breaks) and exit status 0, and stays there; no run ever  *)
(* has another status, nor a status before it has reached the end.         *)
(***************************************************************************)
Completed(r) ==
  /\ Done(r)
  /\ ret[r] = <<0>>
  /\ NumLabels(out[r]) = 9
  /\ Len(out[r]) = 1089
  /\ IsNewline(out[r][Len(out[r])])

C6_Terminates ==
  /\ <>[](\A r \in Runs : Completed(r))
  /\ [](\A r \in Runs : /\ ret[r] \in {<<>>, <<0>>}
                        /\ ret[r] # <<>> <=> Done(r))

\* Both runs have returned 0 after writing all nine groups.
C6_Witness == \A r \in Runs : Completed(r)

(***************************************************************************)
(* C7.  The output is deterministic: two runs stepped side by side, which  *)
(* may start with different indeterminate values in i, j and n, have       *)
(* written identical outputs and stand at the same statement whenever both *)
(* have taken the same number of steps, and end with identical complete    *)
(* outputs and the same status.                                            *)
(***************************************************************************)
C7_Deterministic ==
  /\ Runs = {1, 2}
  /\ turn = 1 => /\ out[1] = out[2]
                 /\ pc[1] = pc[2]
                 /\ grp[1] = grp[2]
  /\ (Done(1) /\ Done(2)) => out[1] = out[2] /\ ret[1] = ret[2]

\* The two runs hold different indeterminate values in i, j and n, each has
\* written its first label line, and the outputs agree.
C7_Witness ==
  /\ i[1] # i[2] /\ j[1] # j[2] /\ n[1] # n[2]
  /\ turn = 1
  /\ Len(out[1]) = 1 /\ out[1] = out[2]
  /\ pc[1] = "i_init" /\ pc[2] = "i_init"

(***************************************************************************)
(* C8 as stated.  The first cell of the Plain group is ESC[0m, a space,    *)
(* "  0", ESC[m; and the last cell of every group has an SGR sequence that *)
(* ends in ";108m" and the number field "108".                             *)
(***************************************************************************)
C8_LastCellHasSemicolon ==
  \A r \in Runs :
    LET o == out[r]
        G == ClosedGroups(r)
    IN  /\ CellFrom(o, 1) # 0 => o[CellFrom(o, 1)] = ESC \o "[0m   0" \o ESC \o "[m"
        /\ \A g \in 1..Len(G) :
             LET c == Cells(G[g])
             IN  /\ c # <<>>
                 /\ EndsWith(SgrSequence(c[Len(c)]), ";108m")
                 /\ NumberField(c[Len(c)]) = "108"

(***************************************************************************)
(* C8 as amended.  The first cell of the Plain group is ESC[0m, a space,   *)
(* "  0", ESC[m.  The last cell of every group other than Plain is         *)
(* ESC[<prefix>;108m 108ESC[m: its SGR sequence ends in ";108m".  The last *)
(* cell of the Plain group is ESC[108m 108ESC[m, with no semicolon.  In    *)
(* every group the last cell's number field is "108", with no padding.     *)
(***************************************************************************)
C8_FirstAndLastCell ==
  \A r \in Runs :
    LET o == out[r]
        G == ClosedGroups(r)
    IN  /\ CellFrom(o, 1) # 0 => o[CellFrom(o, 1)] = ESC \o "[0m   0" \o ESC \o "[m"
        /\ \A g \in 1..Len(G) :
             LET c == Cells(G[g])
             IN  /\ c # <<>>
                 /\ NumberField(c[Len(c)]) = "108"
                 /\ IF g = 1
                    THEN c[Len(c)] = ESC \o "[108m 108" \o ESC \o "[m"
                    ELSE /\ EndsWith(SgrSequence(c[Len(c)]), ";108m")
                         /\ c[Len(c)] =
                              ESC \o "[" \o StatedPrefix[g] \o ";108m 108" \o ESC \o "[m"

\* The third label line has just been written: the Plain group began with
\* ESC[0m   0ESC[m and ended with ESC[108m 108ESC[m, and the group after it
\* ended with ESC[1;108m 108ESC[m.
C8_Witness ==
  \E r \in Runs :
    /\ JustClosed(r)
    /\ Len(ClosedGroups(r)) = 2
    /\ LET P == Cells(ClosedGroups(r)[1])
           B == Cells(ClosedGroups(r)[2])
       IN  /\ P[1] = ESC \o "[0m   0" \o ESC \o "[m"
           /\ P[Len(P)] = ESC \o "[108m 108" \o ESC \o "[m"
           /\ B[Len(B)] = ESC \o "[1;108m 108" \o ESC \o "[m"

(***************************************************************************)
(* C9.  Every row, full or short, is followed by exactly one line break    *)
(* and no row without cells is written: a line break is only ever written  *)
(* straight after a cell, the row loop never enters a row whose first      *)
(* value 10*i exceeds 108, and every closed group is exactly 11 rows, each *)
(* with at least one cell and each ended by a line break; the complete     *)
(* output is nine such groups.                                             *)
(***************************************************************************)
C9_RowsEndInOneNewline ==
  \A r \in Runs :
    LET o == out[r]
        G == ClosedGroups(r)
    IN  /\ (o # <<>> /\ IsNewline(o[Len(o)])) =>
             Len(o) >= 2 /\ IsCell(o[Len(o) - 1])
        /\ pc[r] \in {"j_init", "j_test", "n_assign", "n_test", "j_inc"} =>
             10 * i[r] <= 108
        /\ \A g \in 1..Len(G) :
             /\ G[g] # <<>>
             /\ IsNewline(G[g][Len(G[g])])
             /\ Len(Rows(G[g])) = 11
             /\ \A m \in 1..Len(Rows(G[g])) : Len(Rows(G[g])[m]) >= 1
        /\ Done(r) => Len(G) = 9

\* The second label line has just been written: the eleventh, short row of
\* the Plain group holds cells and is ended by the group's last line break.
C9_Witness ==
  \E r \in Runs :
    /\ JustClosed(r)
    /\ Len(ClosedGroups(r)) = 1
    /\ LET body == ClosedGroups(r)[1]
       IN  /\ Len(Rows(body)) = 11
           /\ Len(Rows(body)[11]) = 9
           /\ IsNewline(body[Len(body)])
           /\ IsCell(body[Len(body) - 1])

(***************************************************************************)
(* C10.  Every attribute-setting sequence is closed by a reset inside the  *)
(* same cell: the write just made holds as many resets as setting          *)
(* sequences and, if it holds any, ends in the reset ESC[m; and whenever a *)
(* run is about to write a label, a line break or a cell, or has returned, *)
(* its output holds exactly as many resets as setting sequences.           *)
(***************************************************************************)
\* Run r has returned, or it is the run to step and its next statement
\* writes a label, a line break or a cell.
AboutToWrite(r) ==
  \/ pc[r] = "done"
  \/ turn = r /\ pc[r] \in {"label", "newline"}
  \/ turn = r /\ pc[r] = "n_test" /\ ~BreakCond(grp[r], n[r])

C10_EverySetIsReset ==
  \A r \in Runs :
    LET o == out[r]
    IN  /\ o # <<>> =>
             LET w == o[Len(o)]
             IN  /\ Cardinality(SetAt(w)) = Cardinality(ResetAt(w))
                 /\ SetAt(w) # {} => EndsWith(w, ESC \o "[m")
        /\ AboutToWrite(r) => Unclosed(o, 1, Len(o)) = 0

\* In the first Bold group a run is about to write the line break of a full
\* row: the cell just written sets attributes, and the output holds as many
\* resets as setting sequences.
C10_Witness ==
  \E r \in Runs :
    /\ turn = r
    /\ pc[r] = "newline"
    /\ grp[r] = 2
    /\ out[r] # <<>>
    /\ Cardinality(SetAt(out[r][Len(out[r])])) = 1
    /\ Unclosed(out[r], 1, Len(out[r])) = 0

=============================================================================
